---------------------------- MODULE Spec2Model ----------------------------
(***************************************************************************)
(* binmerge: merging binary files that may overlap.                        *)
(*                                                                         *)
(* The model follows src/binmerge.cpp (version 0.2.0).  A file is a finite *)
(* sequence of bytes, a std::istream is a record holding the file's bytes, *)
(* the read position and the eofbit / failbit flags.  searchInFile and     *)
(* compareFiles are operators that run the code's loops block by block on  *)
(* such a stream; main's pair scan and mergeFiles are the actions.         *)
(*                                                                         *)
(* The source fixes blockSize = 4096 and a fingerprint of 20 bytes.  TLC   *)
(* cannot enumerate files of that size, so both are scaled down: the block *)
(* size is part of the state (chosen when the run starts) and the          *)
(* fingerprint length is FingerprintLen below.  Every formula is stated in *)
(* terms of these two quantities, never of their scaled values.            *)
(***************************************************************************)
EXTENDS Integers, Sequences, FiniteSets, TLC

(***************************************************************************)
(* Bounds of the model.                                                    *)
(***************************************************************************)
\* longest file of a two-file run, and longest stream handed to searchInFile
MaxLen == 4
\* longest file of a three-file run
MaxShortLen == 2
\* largest block size of a run of main
MaxBlock == 3
\* the fingerprint length (20 in the source, binmerge.cpp:240)
FingerprintLen == 2
\* longest pattern handed to searchInFile on its own
MaxPattern == 3

Byte == {0, 1}

ByteSeqs(n) == UNION {[1..k -> Byte] : k \in 0..n}

Min(a, b) == IF a <= b THEN a ELSE b

\* s[from+1 .. to] with 0-based half-open offsets [from, to)
Slice(s, from, to) == SubSeq(s, from + 1, to)

VARIABLES
  fileNames,      \* the input files, in order: fileNames[k] is the content of file k
  best,           \* args["--best"]
  blockSize,      \* the block size of searchInFile and compareFiles
  pc,             \* where main is
  i,              \* main's loop index: the successor of the current pair (1-based: file i+1)
  file1,          \* std::ifstream file1
  file2,          \* std::ifstream file2
  pattern,        \* the fingerprint searched for
  startOffset,    \* the pos argument of the last searchInFile call
  result,         \* main's best MatchResult of the current pair
  lastResult,     \* main's last candidate
  searchResults,  \* the PairResults recorded so far
  history,        \* the <<startOffset, lastResult>> of every searchInFile call of the current pair
  shortRead,      \* a block read of the last call came back short with no end-of-stream
  injected,       \* the device failed during the last call
  output,         \* the bytes in the output file
  merge,          \* mergeFiles: "none" not called, "complete", or "aborted" on an open failure
  exitStatus      \* main's return value (-1: still running, 134: std::terminate)

vars == <<fileNames, best, blockSize, pc, i, file1, file2, pattern, startOffset,
          result, lastResult, searchResults, history, shortRead, injected,
          output, merge, exitStatus>>

(***************************************************************************)
(* MatchResult (binmerge.cpp:12-35).                                       *)
(***************************************************************************)
MatchResult(found, pos, size, diff) ==
  [patternFound |-> found, matchPosition |-> pos, patternSize |-> size,
   bytesDiffering |-> diff]

\* MatchResult{}: the default member initializers
NoMatch == MatchResult(FALSE, 0, 0, 0)

overlapCount(r) == r.matchPosition + r.patternSize

\* quota() is the double (overlapCount - bytesDiffering) / overlapCount, or 0.0.
\* It is kept as the exact fraction <<numerator, denominator>>: for operands
\* this small the correctly rounded quotients of two fractions compare as the
\* fractions do, and 0.7 is the rounding of 7/10.
quota(r) ==
  IF ~r.patternFound \/ overlapCount(r) = 0
  THEN <<0, 1>>
  ELSE <<overlapCount(r) - r.bytesDiffering, overlapCount(r)>>

\* a > b for two quotas
QuotaGreater(a, b) == a[1] * b[2] > b[1] * a[2]

\* q > 0.7
AboveThreshold(q) == 10 * q[1] > 7 * q[2]

(***************************************************************************)
(* std::istream over a file.  faultAt is the offset of a byte the device   *)
(* fails to deliver (-1: a healthy stream): a read that reaches it returns *)
(* the bytes before it and sets failbit without eofbit.  shortSeen records *)
(* that some read of the stream came back short with no end-of-stream.     *)
(***************************************************************************)
Open(data) ==
  [data |-> data, pos |-> 0, eof |-> FALSE, fail |-> FALSE, faultAt |-> -1,
   shortSeen |-> FALSE]

\* a stream that is not open
Idle == Open(<<>>)

WithFault(s, f) == [s EXCEPT !.faultAt = f]

\* file.clear()
Clear(s) == [s EXCEPT !.eof = FALSE, !.fail = FALSE]

\* file.seekg(pos): a file stream may be positioned past its end
Seekg(s, p) == IF s.fail THEN s ELSE [s EXCEPT !.pos = p, !.eof = FALSE]

\* file.seekg(-back, std::ios_base::end): a target before the start of the
\* file fails, sets failbit and leaves the position where it was
SeekgEnd(s, back) ==
  IF s.fail THEN s
  ELSE IF back > Len(s.data) THEN [s EXCEPT !.fail = TRUE]
  ELSE [s EXCEPT !.pos = Len(s.data) - back, !.eof = FALSE]

\* file.read(buf, n); file.gcount() is Len(bytes).  short: fewer bytes than
\* requested although the stream does not signal end-of-stream.
Read(s, n) ==
  IF s.fail \/ s.eof
  THEN [stream |-> [s EXCEPT !.fail = TRUE, !.shortSeen = s.shortSeen \/ ~s.eof],
        bytes |-> <<>>, short |-> ~s.eof]
  ELSE LET avail == IF s.pos < Len(s.data) THEN Len(s.data) - s.pos ELSE 0
           want  == Min(n, avail)
           hit   == s.faultAt >= s.pos /\ s.faultAt < s.pos + want
           count == IF hit THEN s.faultAt - s.pos ELSE want
           atEof == ~hit /\ count < n
       IN  [stream |-> [s EXCEPT !.pos = s.pos + count,
                                 !.eof = atEof,
                                 !.fail = hit \/ atEof,
                                 !.shortSeen = s.shortSeen \/ hit],
            bytes  |-> Slice(s.data, s.pos, s.pos + count),
            short  |-> hit]

\* bool(file): !fail()
Good(s) == ~s.fail

\* mutant: the sanity check left out
SanityCheckOff(rd) == FALSE

\* the sanity check after a block read: bytesRead < blockSize && !file.eof()
SanityCheckFails(rd) == rd.short

(***************************************************************************)
(* searchInFile (binmerge.cpp:37-88).                                      *)
(***************************************************************************)
\* mutant: a search that compares the first byte of the pattern only
StdSearchFirstByte(buffer, stop, pat) ==
  IF Len(pat) = 0 THEN 0
  ELSE LET hits == {k \in 0..(stop - Len(pat)) : buffer[k + 1] = pat[1]}
       IN  IF hits = {} THEN stop
           ELSE CHOOSE k \in hits : \A m \in hits : k <= m

\* std::search(&buffer[0], &buffer[stop], pattern.begin(), pattern.end()) as an
\* index into the buffer: the first match, or stop when there is none.  An
\* empty pattern matches at the start of any range.
StdSearch(buffer, stop, pat) ==
  IF Len(pat) = 0 THEN 0
  ELSE LET hits == {k \in 0..(stop - Len(pat)) :
                      \A j \in 1..Len(pat) : buffer[k + j] = pat[j]}
       IN  IF hits = {} THEN stop
           ELSE CHOOSE k \in hits : \A m \in hits : k <= m

\* mutant: the searched range ends with the old half of the buffer, so a match
\* that runs into the freshly read block is not seen
StopIndexOldHalf(bytesReadPreviously, patternSize, realBufferSize) ==
  Min(bytesReadPreviously, realBufferSize)

\* std::min(bytesReadPreviously + pattern.size() - 1, realBufferSize) in size_t:
\* 0 + 0 - 1 wraps to the largest value, and the minimum is realBufferSize
StopIndex(bytesReadPreviously, patternSize, realBufferSize) ==
  IF bytesReadPreviously + patternSize = 0
  THEN realBufferSize
  ELSE Min(bytesReadPreviously + patternSize - 1, realBufferSize)

\* the body of the while loop (lines 59-84) on the loop's variables
SearchBody(st, pat, bs) ==
  LET rd        == Read(st.file, bs)
      bytesRead == Len(rd.bytes)
      buffer    == st.buffer \o rd.bytes
      realBufferSize == st.bytesReadPreviously + bytesRead
      stop      == StopIndex(st.bytesReadPreviously, Len(pat), realBufferSize)
      found     == StdSearch(buffer, stop, pat)
  IN  IF SanityCheckFails(rd)
      THEN [kind |-> "throw", file |-> rd.stream]
      ELSE IF found # stop
      THEN [kind |-> "return", file |-> rd.stream,
            value |-> MatchResult(TRUE, st.position + found, Len(pat), 0)]
      ELSE [kind |-> "next",
            st |-> [file |-> rd.stream,
                    buffer |-> rd.bytes,
                    bytesReadPreviously |-> bytesRead,
                    realBufferSize |-> realBufferSize,
                    position |-> st.position + st.bytesReadPreviously,
                    iters |-> st.iters + 1]]

\* mutant: the loop ends with the stream, leaving the last block unsearched
SearchCondStreamOnly(st, pat) == Good(st.file)

\* while (file || realBufferSize >= pattern.size())
SearchCond(st, pat) == Good(st.file) \/ st.realBufferSize >= Len(pat)

\* The loop.  An iteration that leaves every variable of the loop as it found
\* it, with the loop condition true, repeats forever: the call never returns
\* ("hang").
RECURSIVE SearchLoop(_, _, _)
SearchLoop(st, pat, bs) ==
  IF ~SearchCond(st, pat)
  THEN [status |-> "return", value |-> NoMatch, file |-> st.file,
        iters |-> st.iters]
  ELSE LET b == SearchBody(st, pat, bs)
       IN  CASE b.kind = "throw" ->
                  [status |-> "throw", value |-> NoMatch, file |-> b.file,
                   iters |-> st.iters + 1]
             [] b.kind = "return" ->
                  [status |-> "return", value |-> b.value, file |-> b.file,
                   iters |-> st.iters + 1]
             [] OTHER ->
                  IF [b.st EXCEPT !.iters = st.iters] = st
                  THEN [status |-> "hang", value |-> NoMatch, file |-> b.st.file,
                        iters |-> st.iters + 1]
                  ELSE SearchLoop(b.st, pat, bs)

searchInFile(file, pat, pos, bs) ==
  LET rd == Read(Seekg(Clear(file), pos), bs)
  IN  IF SanityCheckFails(rd)
      THEN [status |-> "throw", value |-> NoMatch, file |-> rd.stream, iters |-> 0]
      ELSE SearchLoop([file |-> rd.stream,
                       buffer |-> rd.bytes,
                       bytesReadPreviously |-> Len(rd.bytes),
                       realBufferSize |-> Len(rd.bytes),
                       position |-> pos,
                       iters |-> 0], pat, bs)

(***************************************************************************)
(* compareFiles (binmerge.cpp:92-127).                                     *)
(***************************************************************************)
\* the do-while loop: both blocks are read, then checked, then compared
RECURSIVE CompareLoop(_, _, _, _)
CompareLoop(f1, f2, bs, bytesDifferent) ==
  LET r1 == Read(f1, bs)
      r2 == Read(f2, bs)
      numberOfBytes == Min(Len(r1.bytes), Len(r2.bytes))
      diff == bytesDifferent
                + Cardinality({k \in 1..numberOfBytes : r1.bytes[k] # r2.bytes[k]})
  IN  IF SanityCheckFails(r1) \/ SanityCheckFails(r2)
      THEN [status |-> "throw", value |-> 0, file1 |-> r1.stream, file2 |-> r2.stream]
      ELSE IF Good(r1.stream) /\ Good(r2.stream)
      THEN CompareLoop(r1.stream, r2.stream, bs, diff)
      ELSE [status |-> "return", value |-> diff, file1 |-> r1.stream, file2 |-> r2.stream]

compareFiles(f1, f2, bs) == CompareLoop(f1, f2, bs, 0)

(***************************************************************************)
(* mergeFiles (binmerge.cpp:164-198).  failAt names the file that cannot   *)
(* be opened: 0 the output file, k the k-th input, -1 none.  The output    *)
(* stream is <<bytes written, failbit>>.                                   *)
(***************************************************************************)
\* outputFile << inputFile.rdbuf(): nothing is written through a stream whose
\* failbit is set, and inserting no character sets failbit
InsertRdbuf(out, bytes) ==
  IF out[2] THEN out
  ELSE IF Len(bytes) = 0 THEN <<out[1], TRUE>>
  ELSE <<out[1] \o bytes, FALSE>>

\* mutant: the cut is the match position, the pattern itself is copied again
BytesFromMatch(data, k, results) ==
  LET cut == IF k > 1 /\ results[k - 1].patternFound
             THEN results[k - 1].matchPosition ELSE 0
  IN  Slice(data, Min(cut, Len(data)), Len(data))

\* the seek of lines 189-193, then the bytes from there to the end of the file
BytesFromCut(data, k, results) ==
  LET cut == IF k > 1 /\ results[k - 1].patternFound
             THEN overlapCount(results[k - 1]) ELSE 0
  IN  Slice(data, Min(cut, Len(data)), Len(data))

RECURSIVE MergeLoop(_, _, _, _, _)
MergeLoop(files, results, k, out, failAt) ==
  IF k > Len(files) THEN [output |-> out[1], aborted |-> FALSE]
  ELSE IF failAt = k THEN [output |-> out[1], aborted |-> TRUE]
  ELSE MergeLoop(files, results, k + 1,
                 InsertRdbuf(out, BytesFromCut(files[k], k, results)), failAt)

mergeFiles(files, results, failAt) ==
  IF failAt = 0 THEN [output |-> <<>>, aborted |-> TRUE]
  ELSE MergeLoop(files, results, 1, <<(<<>>), FALSE>>, failAt)

(***************************************************************************)
(* main (binmerge.cpp:202-334).                                            *)
(***************************************************************************)
\* offsets at which the device may fail during one call (-1: it does not)
Faults == -1..(MaxLen - 1)

\* the uncaught std::system_error: std::terminate, SIGABRT
Terminate ==
  /\ pc' = "aborted"
  /\ exitStatus' = 134

\* lines 225-234: open the first file
OpenFirst ==
  /\ pc = "start"
  /\ \E ok \in BOOLEAN :
       IF ok
       THEN /\ file1' = Open(fileNames[1])
            /\ pc' = "extract"
            /\ UNCHANGED exitStatus
       ELSE /\ pc' = "done"
            /\ exitStatus' = 1
            /\ UNCHANGED file1
  /\ UNCHANGED <<fileNames, best, blockSize, i, file2, pattern, startOffset,
                 result, lastResult, searchResults, history, shortRead,
                 injected, output, merge>>

\* lines 238-245: the bytes from 20 before the end to the end.  The iterators
\* read the stream buffer from wherever it stands, whatever the stream's flags:
\* after a seek that failed, from the position the last read left.
ExtractedPattern(file) ==
  LET f == SeekgEnd(Clear(file), FingerprintLen)
  IN  Slice(f.data, Min(f.pos, Len(f.data)), Len(f.data))

\* lines 238-267: extract the pattern, open the next file
ExtractPattern ==
  /\ pc = "extract"
  /\ pattern' = ExtractedPattern(file1)
  /\ file1' = [SeekgEnd(Clear(file1), FingerprintLen) EXCEPT !.pos = Len(file1.data)]
  /\ \E ok \in BOOLEAN :
       IF ok
       THEN /\ file2' = Open(fileNames[i + 1])
            /\ pc' = "search"
            /\ UNCHANGED exitStatus
       ELSE /\ pc' = "done"
            /\ exitStatus' = 1
            /\ UNCHANGED file2
  /\ result' = NoMatch
  /\ lastResult' = NoMatch
  /\ history' = <<>>
  /\ UNCHANGED <<fileNames, best, blockSize, i, startOffset, searchResults,
                 shortRead, injected, output, merge>>

\* lastResult = searchInFile(file2, pattern, pos), while the device may fail
DoSearch(pos) ==
  \E f \in Faults :
    LET r == searchInFile(WithFault(file2, f), pattern, pos, blockSize)
    IN  /\ f = -1 \/ r.file.shortSeen
        /\ injected' = (f # -1)
        /\ shortRead' = r.file.shortSeen
        /\ file2' = [r.file EXCEPT !.faultAt = -1, !.shortSeen = FALSE]
        /\ startOffset' = pos
        /\ CASE r.status = "return" ->
                  /\ lastResult' = r.value
                  /\ history' = Append(history, <<pos, r.value>>)
                  /\ pc' = (IF r.value.patternFound THEN "compare" ELSE "record")
                  /\ UNCHANGED exitStatus
             [] r.status = "throw" ->
                  /\ Terminate
                  /\ UNCHANGED <<lastResult, history>>
             [] OTHER ->
                  /\ pc' = "hung"
                  /\ UNCHANGED <<lastResult, history, exitStatus>>
        /\ UNCHANGED <<fileNames, best, blockSize, i, file1, pattern, result,
                       searchResults, output, merge>>

\* line 268
FirstSearch ==
  /\ pc = "search"
  /\ DoSearch(0)

\* lines 293-294
Retry ==
  /\ pc = "retry"
  /\ DoSearch(lastResult.matchPosition + 1)

\* the candidate kept after a comparison (lines 285-286)
Better(candidate, kept) ==
  IF QuotaGreater(quota(candidate), quota(kept)) THEN candidate ELSE kept

\* mutant: the first candidate always ends the search
StopAtFirst(kept, continuous) == TRUE

\* line 289: stop searching
Stop(kept, continuous) == AboveThreshold(quota(kept)) \/ ~continuous

\* lines 271-290: one pass of the while loop up to its break
CompareCandidate ==
  /\ pc = "compare"
  /\ \E g \in {1, 2}, f \in Faults :
       LET f1 == SeekgEnd(Clear(file1), overlapCount(lastResult))
           f2 == Seekg(Clear(file2), 0)
           c  == compareFiles(IF g = 1 THEN WithFault(f1, f) ELSE f1,
                              IF g = 2 THEN WithFault(f2, f) ELSE f2, blockSize)
           candidate == [lastResult EXCEPT !.bytesDiffering = c.value]
           hit == IF g = 1 THEN c.file1.shortSeen /\ ~compareFiles(f1, f2, blockSize).file1.shortSeen
                           ELSE c.file2.shortSeen
       IN  /\ IF f = -1 THEN g = 1 ELSE hit
           /\ injected' = (f # -1)
           /\ shortRead' = (c.file1.shortSeen \/ c.file2.shortSeen)
           /\ file1' = [c.file1 EXCEPT !.faultAt = -1, !.shortSeen = FALSE]
           /\ file2' = [c.file2 EXCEPT !.faultAt = -1, !.shortSeen = FALSE]
           /\ IF c.status = "throw"
              THEN /\ Terminate
                   /\ UNCHANGED <<lastResult, result>>
              ELSE /\ lastResult' = candidate
                   /\ result' = Better(candidate, result)
                   /\ pc' = (IF Stop(Better(candidate, result), best)
                             THEN "record" ELSE "retry")
                   /\ UNCHANGED exitStatus
  /\ UNCHANGED <<fileNames, best, blockSize, i, pattern, startOffset,
                 searchResults, history, output, merge>>

\* lines 297-316: record the pair's result; file1.swap(file2), and file2 ends
Record ==
  /\ pc = "record"
  /\ searchResults' = Append(searchResults, result)
  /\ file1' = file2
  /\ file2' = Idle
  /\ i' = i + 1
  /\ pc' = (IF i + 1 < Len(fileNames) THEN "extract" ELSE "prompt")
  /\ UNCHANGED <<fileNames, best, blockSize, pattern, startOffset, result,
                 lastResult, history, shortRead, injected, output,
                 merge, exitStatus>>

\* lines 318-333: the prompt, mergeFiles on "y", return 0
Prompt ==
  /\ pc = "prompt"
  /\ \E decision \in {"y", "n"}, failAt \in -1..Len(fileNames) :
       IF decision = "y"
       THEN LET m == mergeFiles(fileNames, searchResults, failAt)
            IN  /\ output' = m.output
                /\ merge' = (IF m.aborted THEN "aborted" ELSE "complete")
       ELSE /\ failAt = -1
            /\ UNCHANGED <<output, merge>>
  /\ pc' = "done"
  /\ exitStatus' = 0
  /\ UNCHANGED <<fileNames, best, blockSize, i, file1, file2, pattern,
                 startOffset, result, lastResult, searchResults, history,
                 shortRead, injected>>

\* three files of which the first two are shorter than the fingerprint
ShortChains ==
  {<<A, B, C>> : A \in ByteSeqs(FingerprintLen - 1),
                 B \in ByteSeqs(FingerprintLen - 1),
                 C \in ByteSeqs(MaxLen)}

FileLists ==
  {<<A, B>> : A \in ByteSeqs(MaxLen), B \in ByteSeqs(MaxLen)}
    \cup [1..3 -> ByteSeqs(MaxShortLen)]
    \cup ShortChains

Init ==
  /\ fileNames \in FileLists
  /\ best \in BOOLEAN
  /\ blockSize \in FingerprintLen..MaxBlock
  /\ pc = "start"
  /\ i = 1
  /\ file1 = Idle
  /\ file2 = Idle
  /\ pattern = <<>>
  /\ startOffset = 0
  /\ result = NoMatch
  /\ lastResult = NoMatch
  /\ searchResults = <<>>
  /\ history = <<>>
  /\ shortRead = FALSE
  /\ injected = FALSE
  /\ output = <<>>
  /\ merge = "none"
  /\ exitStatus = -1

Next ==
  \/ OpenFirst
  \/ ExtractPattern
  \/ FirstSearch
  \/ CompareCandidate
  \/ Retry
  \/ Record
  \/ Prompt

Spec == Init /\ [][Next]_vars

(***************************************************************************)
(* A plain in-memory substring search, the reference of the search claims. *)
(***************************************************************************)
OccursAt(S, P, k) ==
  /\ k + Len(P) <= Len(S)
  /\ \A j \in 1..Len(P) : S[k + j] = P[j]

Occurrences(S, P, from) == {k \in from..Len(S) : OccursAt(S, P, k)}

SetMin(T) == CHOOSE k \in T : \A m \in T : k <= m

(***************************************************************************)
(* SpecSearch: searchInFile on its own, for every stream, pattern, start   *)
(* offset and block size within the bounds.                                *)
(***************************************************************************)

InitSearch ==
  /\ fileNames \in {<<S>> : S \in ByteSeqs(MaxLen)}
  /\ pattern \in ByteSeqs(MaxPattern) \ {<<>>}
  /\ startOffset \in 0..(MaxLen + 1)
  /\ blockSize \in 1..(MaxLen + 1)
  /\ best = FALSE
  /\ pc = "call"
  /\ i = 1
  /\ file1 = Idle
  /\ file2 = Open(fileNames[1])
  /\ result = NoMatch
  /\ lastResult = NoMatch
  /\ searchResults = <<>>
  /\ history = <<>>
  /\ shortRead = FALSE
  /\ injected = FALSE
  /\ output = <<>>
  /\ merge = "none"
  /\ exitStatus = -1

\* one call searchInFile(file2, pattern, startOffset)
CallSearch ==
  /\ pc = "call"
  /\ LET r == searchInFile(file2, pattern, startOffset, blockSize)
     IN  /\ pc' = (IF r.status = "return" THEN "returned" ELSE r.status)
         /\ lastResult' = r.value
         /\ file2' = r.file
         /\ shortRead' = r.file.shortSeen
         /\ history' = Append(history, <<startOffset, r.value>>)
  /\ UNCHANGED <<fileNames, best, blockSize, i, file1, pattern, startOffset,
                 result, searchResults, injected, output, merge,
                 exitStatus>>

NextSearch == CallSearch

SpecSearch == InitSearch /\ [][NextSearch]_vars

(***************************************************************************)
(* Claims about searchInFile, checked under SpecSearch.                    *)
(***************************************************************************)
\* the MatchResult a plain substring search from startOffset would give
ReferenceResult(S, P, from) ==
  LET occ == Occurrences(S, P, from)
  IN  IF occ = {} THEN NoMatch ELSE MatchResult(TRUE, SetMin(occ), Len(P), 0)

\* a block boundary of the call lies strictly inside the match
SpansBoundary(r, from, bs) ==
  \E m \in 1..(MaxLen + 1) :
     /\ r.matchPosition < from + m * bs
     /\ from + m * bs < r.matchPosition + r.patternSize

\* C1: for a non-empty pattern no longer than one block, searchInFile returns
\* (it neither throws nor loops forever) the first occurrence at or after
\* startOffset, with patternSize = |pattern| and bytesDiffering = 0, and the
\* all-zero not-found result exactly when there is no such occurrence.
C1_SearchFindsFirst ==
  (pc # "call" /\ Len(pattern) <= blockSize) =>
     /\ pc = "returned"
     /\ lastResult = ReferenceResult(fileNames[1], pattern, startOffset)

\* C1 witness: a match found from a nonzero start offset that spans a block
\* boundary and is not the first occurrence in the stream.
C1_Witness ==
  /\ pc = "returned"
  /\ Len(pattern) <= blockSize
  /\ startOffset > 0
  /\ lastResult.patternFound
  /\ SpansBoundary(lastResult, startOffset, blockSize)
  /\ Occurrences(fileNames[1], pattern, 0) # Occurrences(fileNames[1], pattern, startOffset)

\* C8 as stated: whenever |P| <= |S|, found and matchPosition are those of the
\* plain substring search, for every block size from 1 up.
C8_AnyBlockSize ==
  (pc # "call" /\ Len(pattern) <= Len(fileNames[1])) =>
     /\ pc = "returned"
     /\ lastResult.patternFound
          = ReferenceResult(fileNames[1], pattern, startOffset).patternFound
     /\ lastResult.matchPosition
          = ReferenceResult(fileNames[1], pattern, startOffset).matchPosition

\* C8 amended: for every block size of at least |P| - 1 (the rolling window
\* then holds a whole pattern behind any first byte in its old half), found
\* and matchPosition are those of the plain substring search, and are the same
\* under every other such block size.
C8_BlockSizeIndependent ==
  (pc # "call" /\ Len(pattern) <= Len(fileNames[1])
               /\ blockSize >= Len(pattern) - 1) =>
     /\ pc = "returned"
     /\ lastResult.patternFound
          = ReferenceResult(fileNames[1], pattern, startOffset).patternFound
     /\ lastResult.matchPosition
          = ReferenceResult(fileNames[1], pattern, startOffset).matchPosition
     /\ \A bs \in 1..(MaxLen + 1) :
          bs >= Len(pattern) - 1 =>
            LET other == searchInFile(Open(fileNames[1]), pattern, startOffset, bs)
            IN  /\ other.status = "return"
                /\ other.value.patternFound = lastResult.patternFound
                /\ other.value.matchPosition = lastResult.matchPosition

\* C8 witness: a match found with a block size of exactly |P| - 1, smaller than
\* the pattern, in a stream of several blocks.
C8_Witness ==
  /\ pc = "returned"
  /\ blockSize = Len(pattern) - 1
  /\ Len(fileNames[1]) > 2 * blockSize
  /\ lastResult.patternFound
  /\ lastResult.matchPosition > startOffset


(***************************************************************************)
(* SpecMerge: mergeFiles on its own, for every list of two or three files  *)
(* and every list of PairResults a scan can hand it: a found result lies   *)
(* inside its successor file, a not-found result is the all-zero one.      *)
(***************************************************************************)
PairResultsOf(B) ==
  {NoMatch} \cup
  {MatchResult(TRUE, p, n, d) :
     p \in 0..Len(B), n \in {0, FingerprintLen}, d \in 0..1} 

ScanLike(files, results) ==
  \A k \in 1..Len(results) :
     /\ results[k] \in PairResultsOf(files[k + 1])
     /\ overlapCount(results[k]) <= Len(files[k + 1])
     /\ results[k].bytesDiffering <= overlapCount(results[k])

MergeInputs ==
  {fr \in UNION {[1..n -> ByteSeqs(MaxShortLen)]
                   \X [1..(n - 1) -> PairResultsOf([k \in 1..MaxShortLen |-> 0])] :
                 n \in 2..3} :
     ScanLike(fr[1], fr[2])}

InitMerge ==
  /\ \E fr \in MergeInputs :
       /\ fileNames = fr[1]
       /\ searchResults = fr[2]
  /\ best \in BOOLEAN
  /\ blockSize = MaxBlock
  /\ pc = "prompt"
  /\ i = Len(fileNames)
  /\ file1 = Idle
  /\ file2 = Idle
  /\ pattern = <<>>
  /\ startOffset = 0
  /\ result = NoMatch
  /\ lastResult = NoMatch
  /\ history = <<>>
  /\ shortRead = FALSE
  /\ injected = FALSE
  /\ output = <<>>
  /\ merge = "none"
  /\ exitStatus = -1

NextMerge == Prompt

SpecMerge == InitMerge /\ [][NextMerge]_vars

(***************************************************************************)
(* Claims about the pair scan and the assembly.                            *)
(***************************************************************************)
\* the last FingerprintLen bytes of a file that has them
Fingerprint(A) == Slice(A, Len(A) - FingerprintLen, Len(A))

\* the last k bytes of A are the first k bytes of B
Overlap(A, B, k) ==
  /\ k <= Len(A)
  /\ k <= Len(B)
  /\ Slice(A, Len(A) - k, Len(A)) = Slice(B, 0, k)

\* mergeFiles ran to its end
Merged == pc = "done" /\ merge = "complete"

\* the scan of pair p (files p and p+1) stopped without a device failure
StoppedAt(p) == i = p /\ pc \in {"aborted", "hung"} /\ ~injected

Recorded(p) == Len(searchResults) >= p

TwoFiles == Len(fileNames) = 2

\* C2 as stated: for every split A = X||Y, B = Y||Z with |Y| = k >= fingerprint
\* length, whatever Y is, the pair is recorded found with overlapCount = k,
\* bytesDiffering = 0, quality 1, and the merge is X||Y||Z.
C2_RoundTripAnyY ==
  TwoFiles =>
    \A k \in FingerprintLen..MaxLen :
      Overlap(fileNames[1], fileNames[2], k) =>
        /\ ~StoppedAt(1)
        /\ Recorded(1) =>
             /\ searchResults[1].patternFound
             /\ overlapCount(searchResults[1]) = k
             /\ searchResults[1].bytesDiffering = 0
             /\ quota(searchResults[1])[1] = quota(searchResults[1])[2]
        /\ Merged => output = fileNames[1] \o Slice(fileNames[2], k, Len(fileNames[2]))

\* the fingerprint of A does not occur in B before offset k - FingerprintLen
FirstAtOverlap(A, B, k) ==
  Occurrences(B, Fingerprint(A), 0) \cap 0..(k - FingerprintLen - 1) = {}

\* C2 amended: the round trip holds for every split A = X||Y, B = Y||Z with
\* |Y| = k >= fingerprint length in which the last fingerprint-length bytes of
\* Y do not occur in Y||Z before offset k - fingerprint length: then the scan
\* ends, the pair is recorded found with overlapCount = k, bytesDiffering = 0
\* and quality 1, and the merge is X||Y||Z.
C2_RoundTrip ==
  TwoFiles =>
    \A k \in FingerprintLen..MaxLen :
      (/\ Overlap(fileNames[1], fileNames[2], k)
       /\ FirstAtOverlap(fileNames[1], fileNames[2], k)) =>
        /\ ~StoppedAt(1)
        /\ Recorded(1) =>
             /\ searchResults[1].patternFound
             /\ overlapCount(searchResults[1]) = k
             /\ searchResults[1].bytesDiffering = 0
             /\ quota(searchResults[1])[1] = quota(searchResults[1])[2]
        /\ Merged => output = fileNames[1] \o Slice(fileNames[2], k, Len(fileNames[2]))

\* C2 witness: a finished merge of A = X||Y, B = Y||Z with X, Z non-empty and
\* |Y| above the fingerprint length and above the block size.
C2_Witness ==
  /\ TwoFiles
  /\ Merged
  /\ \E k \in (FingerprintLen + 1)..MaxLen :
       /\ Overlap(fileNames[1], fileNames[2], k)
       /\ FirstAtOverlap(fileNames[1], fileNames[2], k)
       /\ k < Len(fileNames[1])
       /\ k < Len(fileNames[2])
       /\ k > blockSize
       /\ overlapCount(searchResults[1]) = k

\* pair p has a predecessor with a fingerprint that occurs nowhere in the successor
NoOverlap(p) ==
  /\ Len(fileNames[p]) >= FingerprintLen
  /\ Occurrences(fileNames[p + 1], Fingerprint(fileNames[p]), 0) = {}

\* C3: when the predecessor has at least fingerprint-length bytes and its last
\* fingerprint-length bytes occur nowhere in the successor, the scan of the
\* pair ends, the recorded result is not found, with or without --best, and
\* the merge of the two files is A||B.
C3_NoOverlapFallback ==
  \A p \in 1..(Len(fileNames) - 1) :
    NoOverlap(p) =>
      /\ ~StoppedAt(p)
      /\ Recorded(p) => ~searchResults[p].patternFound
      /\ (TwoFiles /\ Merged) => output = fileNames[1] \o fileNames[2]

\* C3 witness: a finished merge of two files without overlap, the successor
\* longer than a block, with --best.
C3_Witness ==
  /\ TwoFiles
  /\ Merged
  /\ best
  /\ NoOverlap(1)
  /\ Len(fileNames[2]) > blockSize
  /\ ~searchResults[1].patternFound

\* the concatenation of every file from its cut offset to its end
RECURSIVE Assembly(_, _, _)
Assembly(files, results, k) ==
  IF k > Len(files) THEN <<>>
  ELSE LET cut == IF k > 1 /\ results[k - 1].patternFound
                  THEN results[k - 1].matchPosition + results[k - 1].patternSize
                  ELSE 0
       IN  Slice(files[k], cut, Len(files[k])) \o Assembly(files, results, k + 1)

RECURSIVE SumLen(_, _)
SumLen(files, k) == IF k > Len(files) THEN 0 ELSE Len(files[k]) + SumLen(files, k + 1)

RECURSIVE SumOverlap(_, _)
SumOverlap(results, k) ==
  IF k > Len(results) THEN 0
  ELSE (IF results[k].patternFound THEN overlapCount(results[k]) ELSE 0)
         + SumOverlap(results, k + 1)

\* C4: the output of a mergeFiles that ran to its end is every file's bytes
\* from its cut offset to its end, in input order, and its length is the sum
\* of the file lengths minus the overlapCount of the found pairs.
C4_AssemblyRule ==
  Merged =>
    /\ output = Assembly(fileNames, searchResults, 1)
    /\ Len(output) = SumLen(fileNames, 1) - SumOverlap(searchResults, 1)

\* C5: when the predecessor of a pair is shorter than the fingerprint length,
\* the scan of the pair ends without a crash and records not found.
C5_ShortPredecessorNotFound ==
  \A p \in 1..(Len(fileNames) - 1) :
    Len(fileNames[p]) < FingerprintLen =>
      /\ ~StoppedAt(p)
      /\ Recorded(p) => ~searchResults[p].patternFound

\* C6: a call of searchInFile or compareFiles in which a block read came back
\* short with no end-of-stream ends in the fatal error: main is terminated with
\* a nonzero status, the call hands back no MatchResult and no difference count
\* (lastResult and result stay as they were) and no PairResult is recorded.
C6_ShortReadFatal ==
  [][shortRead' =>
       /\ pc' = "aborted"
       /\ exitStatus' # 0
       /\ exitStatus' # -1
       /\ lastResult' = lastResult
       /\ result' = result
       /\ history' = history
       /\ searchResults' = searchResults
       /\ Len(searchResults') = i' - 1]_vars

\* C6 witness: the device failed in a call after the first search of a pair
\* had returned a match.
C6_Witness ==
  /\ shortRead
  /\ injected
  /\ pc = "aborted"
  /\ Len(history) >= 1
  /\ lastResult.patternFound

\* A has the ov bytes a candidate of that overlap is scored against
Scoreable(A, ov) == ov <= Len(A)

\* bytes that differ between the last ov bytes of A and the first ov bytes of B
OverlapDiff(A, B, ov) ==
  Cardinality({k \in 1..ov : Len(A) - ov + k >= 1 /\ A[Len(A) - ov + k] # B[k]})

\* the candidate at offset k of B, scored against A
Candidate(A, B, k) ==
  MatchResult(TRUE, k, FingerprintLen, OverlapDiff(A, B, k + FingerprintLen))

\* the occurrences examined: in increasing order up to and including the
\* first whose quality exceeds 0.7
Examined(A, B) ==
  LET occ  == Occurrences(B, Fingerprint(A), 0)
      high == {k \in occ : /\ Scoreable(A, k + FingerprintLen)
                            /\ AboveThreshold(quota(Candidate(A, B, k)))}
  IN  IF high = {} THEN occ ELSE {k \in occ : k <= SetMin(high)}

\* the earliest of the examined candidates of highest quality
BestExamined(A, B) ==
  LET ex == Examined(A, B)
      k  == CHOOSE c \in ex :
              \A m \in ex :
                 /\ ~QuotaGreater(quota(Candidate(A, B, m)), quota(Candidate(A, B, c)))
                 /\ m < c => QuotaGreater(quota(Candidate(A, B, c)),
                                           quota(Candidate(A, B, m)))
  IN  IF ex = {} THEN NoMatch ELSE Candidate(A, B, k)

\* B holds exactly two occurrences of A's fingerprint, the earlier of quality
\* at most 0.7, the later the true overlap (no byte differs)
TwoCandidates(A, B, p1, p2) ==
  /\ Len(A) >= FingerprintLen
  /\ Occurrences(B, Fingerprint(A), 0) = {p1, p2}
  /\ p1 < p2
  /\ p2 + FingerprintLen <= Len(A)
  /\ ~AboveThreshold(quota(Candidate(A, B, p1)))
  /\ OverlapDiff(A, B, p2 + FingerprintLen) = 0

C9_AbortedMergeNonzero ==
  (pc = "done" /\ merge = "aborted") => exitStatus # 0

\* C10: every searchInFile call of the scan ends, successive calls of a pair
\* use strictly increasing start offsets and return strictly increasing match
\* positions, and a pair takes at most one call per occurrence and one more.
C10_ScanTerminates ==
  /\ pc # "hung"
  /\ \A a, b \in 1..Len(history) :
       (a < b) =>
          /\ history[a][1] < history[b][1]
          /\ history[b][2].patternFound =>
               history[a][2].matchPosition < history[b][2].matchPosition
  /\ (pc \in {"search", "compare", "retry", "record"}) =>
        Len(history) <= Cardinality(Occurrences(fileNames[i + 1], pattern, 0)) + 1

\* bytes that differ between the trailing window of A and the leading window
\* of B for an overlap of ov bytes, counted over the shorter of the two
WindowDiff(A, B, ov) ==
  LET n == Min(Min(ov, Len(A)), Len(B))
  IN  Cardinality({k \in 1..n : A[Len(A) - n + k] # B[k]})

\* C11: every candidate the scan finds is scored, whatever the length of the
\* predecessor: the comparison does not end the run, and the candidate's
\* bytesDiffering is the number of differing positions of the two windows,
\* counted over the shorter of the two available lengths.
C11_ScoreOverShorter ==
  /\ ~(pc = "aborted" /\ ~injected)
  /\ (pc \in {"retry", "record"} /\ lastResult.patternFound) =>
        lastResult.bytesDiffering
          = WindowDiff(fileNames[i], fileNames[i + 1], overlapCount(lastResult))

\* the pair whose result the scan recorded last
JustRecorded ==
  /\ pc \in {"extract", "prompt"}
  /\ i > 1
  /\ Len(searchResults) = i - 1

\* the first search of the pair, from offset 0, found a non-empty pattern
FirstSearchFound ==
  /\ Len(history) >= 1
  /\ history[1][1] = 0
  /\ history[1][2].patternFound
  /\ Len(pattern) > 0

\* C12: every recorded result has bytesDiffering <= overlapCount, a recorded
\* not-found result has matchPosition = patternSize = bytesDiffering = 0, and
\* a found result is recorded exactly when the pair's first search, from
\* offset 0, finds an occurrence of a non-empty pattern.
C12_MatchResultInvariant ==
  /\ \A p \in 1..Len(searchResults) :
       /\ searchResults[p].bytesDiffering <= overlapCount(searchResults[p])
       /\ ~searchResults[p].patternFound => searchResults[p] = NoMatch
  /\ JustRecorded =>
       (searchResults[i - 1].patternFound <=> FirstSearchFound)
===========================================================================
